---- MODULE Spec2Model ----
(***************************************************************************)
(* URL shortener service (Flask): app/main.py, app/models.py, app/utils.py *)
(*                                                                         *)
(* Worker threads serve HTTP requests against one in-memory dictionary     *)
(* url_store guarded by one threading.Lock store_lock.  A thread's         *)
(* position in its view function is pc[t]; every statement that touches    *)
(* url_store is a step taken while the thread owns store_lock.             *)
(***************************************************************************)
EXTENDS Integers, Sequences, FiniteSets, TLC

\* ------------------------------------------------------------------ bounds
NumThreads == 2   \* worker threads serving requests
NumDraws   == 2   \* outcomes of random.choices the generator may draw
MaxTime    == 1   \* the clock read by time.strftime ranges over 0..MaxTime
MaxClicks  == 2   \* redirects of one code are accepted up to this count

Threads == 1..NumThreads

\* ------------------------------------------------------- utils.py: codes
CODE_LENGTH == 6

\* string.ascii_letters + string.digits: a-z, A-Z, 0-9 (62 characters)
ALPHANUM ==
  << "a","b","c","d","e","f","g","h","i","j","k","l","m",
     "n","o","p","q","r","s","t","u","v","w","x","y","z",
     "A","B","C","D","E","F","G","H","I","J","K","L","M",
     "N","O","P","Q","R","S","T","U","V","W","X","Y","Z",
     "0","1","2","3","4","5","6","7","8","9" >>

\* Outcomes of random.choices(range(62), k=6) the model lets the generator
\* draw: index tuples into ALPHANUM.  The first spells "health", the second
\* "aB3xY9", then "q7Wz0K" and "Zz09aA".
SampleDraws ==
  << <<8, 5, 1, 12, 20, 8>>,
     <<1, 28, 56, 24, 51, 62>>,
     <<17, 60, 49, 26, 53, 37>>,
     <<52, 26, 53, 62, 1, 27>> >>

Draws == { SampleDraws[k] : k \in 1..(IF NumDraws < Len(SampleDraws) THEN NumDraws ELSE Len(SampleDraws)) }

\* generate_short_code joining one character too few: k=CODE_LENGTH-1
generate_short_code_truncated(draw) == [k \in 1..(CODE_LENGTH - 1) |-> ALPHANUM[draw[k]]]

\* ''.join(random.choices(ALPHANUM, k=CODE_LENGTH)) for one outcome of the draw
generate_short_code(draw) == [k \in 1..CODE_LENGTH |-> ALPHANUM[draw[k]]]

GenCodes == { generate_short_code(d) : d \in Draws }

\* A code no draw of the model produces ("zzzzzz"), for lookups that miss.
UnknownCode == <<"z","z","z","z","z","z">>

NoCode == << >>

\* ------------------------------------------------- utils.py: is_valid_url
\* A Python value handed to is_valid_url: a str (as its sequence of tokens:
\* the separators ":", "/", "?", "#", "[", "]" and the words between them),
\* an int, or None.
StrVal(toks) == [type |-> "str", toks |-> toks]
IntVal        == [type |-> "int", toks |-> << >>]
NoneVal       == [type |-> "NoneType", toks |-> << >>]

\* str.lower() on the scheme words of the model
Lower(w) == CASE w = "HTTP"  -> "http"
              [] w = "HTTPS" -> "https"
              [] OTHER       -> w

\* words made only of scheme characters (letters, digits, "+", "-", ".")
SchemeWords == {"http", "https", "HTTP", "HTTPS", "ftp"}

\* index of the first token of s from position i on that lies in stop,
\* Len(s)+1 when there is none
RECURSIVE FirstIn(_, _, _)
FirstIn(s, i, stop) ==
  IF i > Len(s) THEN Len(s) + 1
  ELSE IF s[i] \in stop THEN i
  ELSE FirstIn(s, i + 1, stop)

\* urllib.parse.urlparse on a str: the scheme is the text before the first
\* ":" when it is made of scheme characters (lower-cased), the netloc is
\* what follows a leading "//" up to the next "/", "?" or "#"; a netloc with
\* an unmatched bracket raises ValueError.
urlparse(toks) ==
  LET colon     == FirstIn(toks, 1, {":"})
      hasScheme == colon = 2 /\ toks[1] \in SchemeWords
      scheme    == IF hasScheme THEN Lower(toks[1]) ELSE ""
      rest      == IF hasScheme THEN SubSeq(toks, 3, Len(toks)) ELSE toks
      hasNetloc == Len(rest) >= 2 /\ rest[1] = "/" /\ rest[2] = "/"
      stop      == FirstIn(rest, 3, {"/", "?", "#"})
      netloc    == IF hasNetloc THEN SubSeq(rest, 3, stop - 1) ELSE << >>
      opens     == \E i \in 1..Len(netloc) : netloc[i] = "["
      closes    == \E i \in 1..Len(netloc) : netloc[i] = "]"
  IN  [scheme |-> scheme, netloc |-> netloc, raises |-> (opens /\ ~closes) \/ (closes /\ ~opens)]

is_valid_url(url) ==
  IF url.type = "int" THEN FALSE          \* urlparse raises AttributeError: except -> False
  ELSE IF url.type = "NoneType" THEN FALSE \* urlparse(None) is all-bytes: b'' not in ("http","https")
  ELSE LET result == urlparse(url.toks)
       IN  IF result.raises THEN FALSE
           ELSE result.scheme \in {"http", "https"} /\ result.netloc # << >>

U_google   == StrVal(<<"https", ":", "/", "/", "www.google.com">>)
U_pytest   == StrVal(<<"https", ":", "/", "/", "pytest.org">>)
U_upper    == StrVal(<<"HTTP", ":", "/", "/", "Example.com", "/", "x">>)
U_not_url  == StrVal(<<"not_a_url">>)
U_nonetloc == StrVal(<<"http", ":", "/", "/">>)
U_onlypath == StrVal(<<"https", ":", "/", "host">>)
U_ftp      == StrVal(<<"ftp", ":", "/", "/", "h", "/", "x">>)
U_noscheme == StrVal(<<"/", "/", "host", "/", "p">>)
U_bracket  == StrVal(<<"http", ":", "/", "/", "[", "host">>)

NoUrl == StrVal(<< >>)

\* ------------------------------------------------ requests and JSON bodies
\* What request.get_json(silent=True) returns: None (no or unparsable body,
\* or JSON null), a dict (its keys, and the value under "url"), a list or a
\* str (their elements or tokens), an int.
JNone            == [kind |-> "NoneType", items |-> << >>, num |-> 0, url |-> NoneVal]
JObject(keys, u) == [kind |-> "dict", items |-> keys, num |-> 0, url |-> u]
JArray(items)    == [kind |-> "list", items |-> items, num |-> 0, url |-> NoneVal]
JString(toks)    == [kind |-> "str", items |-> toks, num |-> 0, url |-> NoneVal]
JNumber(n)       == [kind |-> "int", items |-> << >>, num |-> n, url |-> NoneVal]

\* Python truth value: None, {}, [], "" and 0 are false
Truthy(data) ==
  CASE data.kind = "NoneType" -> FALSE
    [] data.kind = "int"      -> data.num # 0
    [] OTHER                  -> data.items # << >>

\* 'url' in data: key of a dict, element of a list, substring of a str;
\* an int is not iterable
Contains(data) ==
  IF data.kind = "int" THEN "TypeError"
  ELSE IF \E i \in 1..Len(data.items) : data.items[i] = "url" THEN "True" ELSE "False"

\* data['url']: the value of a dict; list and str indices must be integers
Subscript(data) ==
  IF data.kind = "dict" THEN [raises |-> FALSE, value |-> data.url]
  ELSE [raises |-> TRUE, value |-> NoneVal]

JSON_TYPE == "application/json"

Request(method, path, content_type, data) ==
  [method |-> method, path |-> path, content_type |-> content_type, data |-> data]

NoReq == Request("", << >>, "", JNone)

Get(path) == Request("GET", path, "", JNone)

\* request.is_json
is_json(r) == r.content_type = JSON_TYPE

\* ------------------------------------------------------------- main.py: routes
SEG_api      == <<"a","p","i">>
SEG_health   == <<"h","e","a","l","t","h">>
SEG_debug    == <<"d","e","b","u","g">>
SEG_mappings == <<"m","a","p","p","i","n","g","s">>
SEG_shorten  == <<"s","h","o","r","t","e","n">>
SEG_stats    == <<"s","t","a","t","s">>

\* The URL map built by the @app.route decorators.  A rule whose segments
\* are all static is tried before a rule with a <short_code> converter; a
\* rule that matches the path but not the method is passed over, and the
\* request is refused with 405 when no other rule takes it.
Route(r) ==
  LET p   == r.path
      get == r.method = "GET"
      To(endpoint, arg) == [endpoint |-> endpoint, short_code |-> arg]
  IN  IF p = << >>
        THEN IF get THEN To("health_check", NoCode) ELSE To("MethodNotAllowed", NoCode)
      ELSE IF p = <<SEG_api, SEG_health>> /\ get
        THEN To("api_health", NoCode)
      ELSE IF p = <<SEG_api, SEG_debug, SEG_mappings>>
        THEN IF get THEN To("debug_mappings", NoCode) ELSE To("MethodNotAllowed", NoCode)
      ELSE IF p = <<SEG_api, SEG_shorten>> /\ r.method = "POST"
        THEN To("shorten_url", NoCode)
      ELSE IF Len(p) = 2 /\ p[1] = SEG_api /\ p[2] # << >>
        THEN IF get THEN To("redirect_short_url", p[2]) ELSE To("MethodNotAllowed", NoCode)
      ELSE IF Len(p) = 3 /\ p[1] = SEG_api /\ p[2] = SEG_stats /\ p[3] # << >>
        THEN IF get THEN To("stats", p[3]) ELSE To("MethodNotAllowed", NoCode)
      ELSE To("NotFound", NoCode)

\* ---------------------------------------------------------------- responses
NoResp ==
  [status |-> 0, endpoint |-> "", error |-> "", raised |-> "", location |-> NoUrl,
   short_code |-> NoCode, short_url |-> << >>, url |-> NoUrl, clicks |-> -1, created_at |-> -1]

\* jsonify({...}) with status 200 from a view function
Ok(endpoint) == [NoResp EXCEPT !.status = 200, !.endpoint = endpoint]

\* jsonify({"error": msg}), status
Error(endpoint, status, msg) ==
  [NoResp EXCEPT !.status = status, !.endpoint = endpoint, !.error = msg]

\* an exception no handler catches: the framework answers 500
Unhandled(endpoint, exc) ==
  [NoResp EXCEPT !.status = 500, !.endpoint = endpoint, !.raised = exc]

MSG_CONTENT_TYPE == "Content-Type must be application/json"
MSG_URL_REQUIRED == "'url' parameter is required in request body"
MSG_INVALID_URL  == "Invalid URL"
MSG_NO_CODE      == "Could not generate unique code"
MSG_NOT_FOUND    == "Short code not found"

\* -------------------------------------------------------------------- state
VARIABLES
  url_store,   \* models.py url_store: short code -> [url, clicks, created_at]
  store_lock,  \* models.py store_lock: 0 when free, else the thread that owns it
  pc,          \* per thread: where it stands in its view function
  req,         \* per thread: the request it is serving
  attempt,     \* per thread: iterations of shorten_url's for loop started
  code,        \* per thread: shorten_url's local code
  url,         \* per thread: redirect_short_url's local url
  resp,        \* per thread: the response it has returned (pc = "done")
  menu,        \* per thread: the requests clients send it in this run
  known,       \* history, per thread: the URLs already answered by shorten for
               \* the code its request names, when the request arrived
  issued,      \* history: per code, the URLs of the shorten responses carrying it
  completed,   \* history: per code, the redirect requests answered 302
  statsRet,    \* history: per code, clicks of the last stats response since a
               \* redirect of the code was last answered (-1: none)
  statsInc     \* history: per code, clicks of the last stats response since a
               \* redirect of the code last incremented it (-1: none)

vars == <<url_store, store_lock, pc, req, attempt, code, url, resp, menu,
          known, issued, completed, statsRet, statsInc>>

locals    == <<attempt, code, url>>
history   == <<issued, completed, statsRet, statsInc>>

\* range(10) in shorten_url
MAX_ATTEMPTS == 10

Timestamps == 0..MaxTime

\* data['url'] of the request a thread is serving (shorten_url's long_url)
long_url(t) == Subscript(req[t].data).value

\* the <short_code> argument of the thread's view function
short_code(t) == Route(req[t]).short_code

endpoint(t) == Route(req[t]).endpoint

\* ---------------------------------------------------------- request menus
ValidUrls == {U_google, U_pytest}

ShortenPath == <<SEG_api, SEG_shorten>>

Shorten(content_type, data) == Request("POST", ShortenPath, content_type, data)

LookupCodes == GenCodes \cup {UnknownCode}

\* well-formed posts to /api/shorten
ShortenMenu == { Shorten(JSON_TYPE, JObject(<<"url">>, u)) : u \in ValidUrls }

\* following and inspecting codes, the diagnostics and health routes, and the
\* path of the returned short_url
ReadMenu ==
     { Get(<<SEG_api, c>>) : c \in LookupCodes }
  \cup { Get(<<SEG_api, SEG_stats, c>>) : c \in LookupCodes }
  \cup { Get(<<c>>) : c \in GenCodes }
  \cup { Get(<<SEG_api, SEG_debug, SEG_mappings>>), Get(<< >>) }

\* bodies a client may post to /api/shorten
Bodies ==
  { JNone, JObject(<< >>, NoneVal), JObject(<<"link">>, NoneVal),
    JArray(<< >>), JArray(<<"url">>), JArray(<<"a">>),
    JString(<<"url">>), JString(<<"x", "url", "y">>), JString(<<"abc">>),
    JNumber(0), JNumber(5) }
  \cup { JObject(<<"url">>, u) :
           u \in {U_google, U_upper, U_not_url, U_nonetloc, U_onlypath, U_ftp,
                  U_noscheme, U_bracket, IntVal, NoneVal} }
  \cup { JObject(<<"a", "url">>, U_google) }

InputMenu == { Shorten(ct, b) : ct \in {JSON_TYPE, "text/plain"}, b \in Bodies }

\* ------------------------------------------------------------------- Init
InitWith(m) ==
  /\ url_store  = << >>
  /\ store_lock = 0
  /\ pc         = [t \in Threads |-> "idle"]
  /\ req        = [t \in Threads |-> NoReq]
  /\ attempt    = [t \in Threads |-> 0]
  /\ code       = [t \in Threads |-> NoCode]
  /\ url        = [t \in Threads |-> NoUrl]
  /\ resp       = [t \in Threads |-> NoResp]
  /\ menu       = m
  /\ known      = [t \in Threads |-> << >>]
  /\ issued     = [c \in GenCodes |-> << >>]
  /\ completed  = [c \in GenCodes |-> 0]
  /\ statsRet   = [c \in GenCodes |-> -1]
  /\ statsInc   = [c \in GenCodes |-> -1]

\* thread 1 serves the whole traffic, the other threads the GET routes
Init == InitWith([t \in Threads |-> IF t = 1 THEN ShortenMenu \cup ReadMenu ELSE ReadMenu])

\* every thread serves well-formed posts to /api/shorten
InitShorten == InitWith([t \in Threads |-> ShortenMenu])

\* thread 1 serves posts with every kind of body, the others one valid post
InitInput ==
  InitWith([t \in Threads |-> IF t = 1 THEN InputMenu
                              ELSE {Shorten(JSON_TYPE, JObject(<<"url">>, U_google))}])

\* ---------------------------------------------------------------- helpers
\* the URLs shorten has already answered for the code a request names
KnownAt(r) ==
  LET p == r.path
  IN  IF p # << >> /\ p[Len(p)] \in GenCodes THEN issued[p[Len(p)]] ELSE << >>

\* a request arrives at thread t
Arrive(t, r) ==
  /\ req'   = [req EXCEPT ![t] = r]
  /\ known' = [known EXCEPT ![t] = KnownAt(r)]

\* thread t returns a response
Reply(t, response) ==
  /\ pc'   = [pc EXCEPT ![t] = "done"]
  /\ resp' = [resp EXCEPT ![t] = response]

\* redirects of code c that have arrived and not yet passed the lookup
Pending(c) ==
  Cardinality({ u \in Threads : /\ pc[u] \in {"lock", "locked"}
                                /\ endpoint(u) = "redirect_short_url"
                                /\ short_code(u) = c })

Clicks(c) == IF c \in DOMAIN url_store THEN url_store[c].clicks ELSE 0

\* ----------------------------------------------- routes without the store
\* main.py:8-21
health_check(t) ==
  /\ pc[t] = "idle"
  /\ \E r \in menu[t] :
       /\ Route(r).endpoint = "health_check"
       /\ Arrive(t, r)
       /\ Reply(t, Ok("health_check"))
  /\ UNCHANGED <<url_store, store_lock, locals, menu, history>>

\* main.py:23-36
api_health(t) ==
  /\ pc[t] = "idle"
  /\ \E r \in menu[t] :
       /\ Route(r).endpoint = "api_health"
       /\ Arrive(t, r)
       /\ Reply(t, Ok("api_health"))
  /\ UNCHANGED <<url_store, store_lock, locals, menu, history>>

\* a request no rule of the URL map takes: the framework answers 404 or 405
\* with its own page (no view function runs)
route_error(t) ==
  /\ pc[t] = "idle"
  /\ \E r \in menu[t] :
       /\ Route(r).endpoint \in {"NotFound", "MethodNotAllowed"}
       /\ Arrive(t, r)
       /\ Reply(t, [NoResp EXCEPT !.status = IF Route(r).endpoint = "NotFound" THEN 404 ELSE 405,
                                  !.endpoint = Route(r).endpoint])
  /\ UNCHANGED <<url_store, store_lock, locals, menu, history>>

\* ------------------------------------------------------------ shorten_url
\* shorten_check with the validator run before the content type is looked at
shorten_check_validator_first(r) ==
  LET data == r.data
  IN  IF data.kind = "dict" /\ Contains(data) = "True" /\ ~is_valid_url(data.url)
        THEN Error("shorten_url", 400, MSG_INVALID_URL)
      ELSE IF ~is_json(r) THEN Error("shorten_url", 415, MSG_CONTENT_TYPE)
      ELSE IF ~Truthy(data) THEN Error("shorten_url", 400, MSG_URL_REQUIRED)
      ELSE IF Contains(data) = "TypeError" THEN Unhandled("shorten_url", "TypeError")
      ELSE IF Contains(data) = "False" THEN Error("shorten_url", 400, MSG_URL_REQUIRED)
      ELSE IF Subscript(data).raises THEN Unhandled("shorten_url", "TypeError")
      ELSE NoResp

\* shorten_check without the call of is_valid_url
shorten_check_unvalidated(r) ==
  IF ~is_json(r) THEN Error("shorten_url", 415, MSG_CONTENT_TYPE)
  ELSE LET data == r.data
       IN  IF ~Truthy(data) THEN Error("shorten_url", 400, MSG_URL_REQUIRED)
           ELSE IF Contains(data) = "TypeError" THEN Unhandled("shorten_url", "TypeError")
           ELSE IF Contains(data) = "False" THEN Error("shorten_url", 400, MSG_URL_REQUIRED)
           ELSE IF Subscript(data).raises THEN Unhandled("shorten_url", "TypeError")
           ELSE NoResp

\* main.py:60-77: the checks before the loop; NoResp when they all pass
shorten_check(r) ==
  IF ~is_json(r) THEN Error("shorten_url", 415, MSG_CONTENT_TYPE)
  ELSE LET data == r.data
       IN  IF ~Truthy(data) THEN Error("shorten_url", 400, MSG_URL_REQUIRED)
           ELSE IF Contains(data) = "TypeError" THEN Unhandled("shorten_url", "TypeError")
           ELSE IF Contains(data) = "False" THEN Error("shorten_url", 400, MSG_URL_REQUIRED)
           ELSE IF Subscript(data).raises THEN Unhandled("shorten_url", "TypeError")
           ELSE IF ~is_valid_url(Subscript(data).value)
                  THEN Error("shorten_url", 400, MSG_INVALID_URL)
           ELSE NoResp

\* main.py:51-79: a POST /api/shorten arrives and is checked
shorten_url(t) ==
  /\ pc[t] = "idle"
  /\ \E r \in menu[t] :
       /\ Route(r).endpoint = "shorten_url"
       /\ Arrive(t, r)
       /\ IF shorten_check(r) = NoResp
            THEN /\ pc' = [pc EXCEPT ![t] = "generate"]
                 /\ UNCHANGED resp
            ELSE Reply(t, shorten_check(r))
  /\ UNCHANGED <<url_store, store_lock, locals, menu, history>>

\* shorten_generate with the loop bound off by one: range(11)
shorten_generate_off_by_one(t) ==
  /\ pc[t] = "generate"
  /\ attempt[t] <= MAX_ATTEMPTS
  /\ \E d \in Draws : code' = [code EXCEPT ![t] = generate_short_code(d)]
  /\ attempt' = [attempt EXCEPT ![t] = @ + 1]
  /\ pc' = [pc EXCEPT ![t] = "lock"]
  /\ UNCHANGED <<url_store, store_lock, req, url, resp, menu, known, history>>

\* main.py:80-81: the next iteration of the loop draws a code, outside the lock
shorten_generate(t) ==
  /\ pc[t] = "generate"
  /\ attempt[t] < MAX_ATTEMPTS
  /\ \E d \in Draws : code' = [code EXCEPT ![t] = generate_short_code(d)]
  /\ attempt' = [attempt EXCEPT ![t] = @ + 1]
  /\ pc' = [pc EXCEPT ![t] = "lock"]
  /\ UNCHANGED <<url_store, store_lock, req, url, resp, menu, known, history>>

\* acquire that does not wait: the with block is entered whether or not
\* another thread owns the lock
acquire_unguarded(t) ==
  /\ pc[t] = "lock"
  /\ store_lock' = t
  /\ pc' = [pc EXCEPT ![t] = "locked"]
  /\ UNCHANGED <<url_store, req, locals, resp, menu, known, history>>

\* with store_lock: (main.py:47, 82, 111, 135) blocks until the lock is free
acquire(t) ==
  /\ pc[t] = "lock"
  /\ store_lock = 0
  /\ store_lock' = t
  /\ pc' = [pc EXCEPT ![t] = "locked"]
  /\ UNCHANGED <<url_store, req, locals, resp, menu, known, history>>

\* url_store[c] = entry
Put(c, entry) ==
  [k \in DOMAIN url_store \cup {c} |-> IF k = c THEN entry ELSE url_store[k]]

\* shorten_insert without the "if code not in url_store" test: the record is
\* written whether or not the code is taken
shorten_insert_unchecked(t) ==
  /\ pc[t] = "locked"
  /\ store_lock = t
  /\ endpoint(t) = "shorten_url"
  /\ \E now \in Timestamps :
       url_store' = Put(code[t], [url |-> long_url(t), clicks |-> 0, created_at |-> now])
  /\ pc' = [pc EXCEPT ![t] = "return"]
  /\ store_lock' = 0
  /\ UNCHANGED <<req, locals, resp, menu, known, history>>

\* shorten_insert without the break: after a successful insert the loop goes
\* on generating
shorten_insert_no_break(t) ==
  /\ pc[t] = "locked"
  /\ store_lock = t
  /\ endpoint(t) = "shorten_url"
  /\ IF code[t] \notin DOMAIN url_store
       THEN \E now \in Timestamps :
              url_store' = Put(code[t], [url |-> long_url(t), clicks |-> 0, created_at |-> now])
       ELSE UNCHANGED url_store
  /\ pc' = [pc EXCEPT ![t] = "generate"]
  /\ store_lock' = 0
  /\ UNCHANGED <<req, locals, resp, menu, known, history>>

\* main.py:83-89: check and insert under the lock; break leaves the loop (and
\* the with block), a collision goes round the loop
shorten_insert(t) ==
  /\ pc[t] = "locked"
  /\ store_lock = t
  /\ endpoint(t) = "shorten_url"
  /\ IF code[t] \notin DOMAIN url_store
       THEN /\ \E now \in Timestamps :
                 url_store' = Put(code[t], [url |-> long_url(t), clicks |-> 0, created_at |-> now])
            /\ pc' = [pc EXCEPT ![t] = "return"]
       ELSE /\ UNCHANGED url_store
            /\ pc' = [pc EXCEPT ![t] = "generate"]
  /\ store_lock' = 0
  /\ UNCHANGED <<req, locals, resp, menu, known, history>>

\* main.py:91-93: the loop ran out without break
shorten_exhausted(t) ==
  /\ pc[t] = "generate"
  /\ attempt[t] = MAX_ATTEMPTS
  /\ Reply(t, Error("shorten_url", 500, MSG_NO_CODE))
  /\ UNCHANGED <<url_store, store_lock, req, locals, menu, known, history>>

\* main.py:96: request.host_url.rstrip('/') + '/' + code, as the path it names
short_url_path(c) == <<c>>

\* main.py:95-97
shorten_return(t) ==
  /\ pc[t] = "return"
  /\ endpoint(t) = "shorten_url"
  /\ Reply(t, [Ok("shorten_url") EXCEPT !.short_code = code[t],
                                        !.short_url = short_url_path(code[t])])
  /\ issued' = [issued EXCEPT ![code[t]] = Append(@, long_url(t))]
  /\ UNCHANGED <<url_store, store_lock, req, locals, menu, known, completed, statsRet, statsInc>>

\* --------------------------------- redirect_short_url, stats, debug_mappings
\* a GET for one of the three view functions that open with "with store_lock:"
\* arrives (main.py:39, 100, 125)
receive(t) ==
  /\ pc[t] = "idle"
  /\ \E r \in menu[t] :
       /\ Route(r).endpoint \in {"redirect_short_url", "stats", "debug_mappings"}
       /\ Route(r).endpoint = "redirect_short_url" =>
            Clicks(Route(r).short_code) + Pending(Route(r).short_code) < MaxClicks
       /\ Arrive(t, r)
  /\ pc' = [pc EXCEPT ![t] = "lock"]
  /\ UNCHANGED <<url_store, store_lock, locals, resp, menu, history>>

\* redirect_short_url incrementing a copy of the entry: the store keeps the
\* old count
redirect_lookup_lost_update(t) ==
  /\ pc[t] = "locked"
  /\ store_lock = t
  /\ endpoint(t) = "redirect_short_url"
  /\ LET c == short_code(t)
     IN  IF c \notin DOMAIN url_store
           THEN /\ Reply(t, Error("redirect_short_url", 404, MSG_NOT_FOUND))
                /\ UNCHANGED <<url_store, url, statsInc>>
           ELSE /\ url' = [url EXCEPT ![t] = url_store[c].url]
                /\ statsInc' = [statsInc EXCEPT ![c] = -1]
                /\ pc' = [pc EXCEPT ![t] = "return"]
                /\ UNCHANGED <<url_store, resp>>
  /\ store_lock' = 0
  /\ UNCHANGED <<req, attempt, code, menu, known, issued, completed, statsRet>>

\* redirect_short_url on a dictionary that creates the entry it is asked for
\* (url_store.setdefault): a miss leaves a record behind
redirect_lookup_autocreate(t) ==
  /\ pc[t] = "locked"
  /\ store_lock = t
  /\ endpoint(t) = "redirect_short_url"
  /\ LET c == short_code(t)
     IN  IF c \notin DOMAIN url_store
           THEN /\ Reply(t, Error("redirect_short_url", 404, MSG_NOT_FOUND))
                /\ url_store' = Put(c, [url |-> NoUrl, clicks |-> 0, created_at |-> 0])
                /\ UNCHANGED <<url, statsInc>>
           ELSE /\ url_store' = [url_store EXCEPT ![c].clicks = @ + 1]
                /\ url' = [url EXCEPT ![t] = url_store[c].url]
                /\ statsInc' = [statsInc EXCEPT ![c] = -1]
                /\ pc' = [pc EXCEPT ![t] = "return"]
                /\ UNCHANGED resp
  /\ store_lock' = 0
  /\ UNCHANGED <<req, attempt, code, menu, known, issued, completed, statsRet>>

\* redirect_short_url counting the visit on every record of the store
redirect_lookup_counts_all(t) ==
  /\ pc[t] = "locked"
  /\ store_lock = t
  /\ endpoint(t) = "redirect_short_url"
  /\ LET c == short_code(t)
     IN  IF c \notin DOMAIN url_store
           THEN /\ Reply(t, Error("redirect_short_url", 404, MSG_NOT_FOUND))
                /\ UNCHANGED <<url_store, url, statsInc>>
           ELSE /\ url_store' = [k \in DOMAIN url_store |->
                                   [url_store[k] EXCEPT !.clicks = @ + 1]]
                /\ url' = [url EXCEPT ![t] = url_store[c].url]
                /\ statsInc' = [statsInc EXCEPT ![c] = -1]
                /\ pc' = [pc EXCEPT ![t] = "return"]
                /\ UNCHANGED resp
  /\ store_lock' = 0
  /\ UNCHANGED <<req, attempt, code, menu, known, issued, completed, statsRet>>

\* redirect_short_url whose 404 leaves the with block without releasing the
\* lock (an acquire() with no release() on the early return)
redirect_lookup_keeps_lock(t) ==
  /\ pc[t] = "locked"
  /\ store_lock = t
  /\ endpoint(t) = "redirect_short_url"
  /\ LET c == short_code(t)
     IN  IF c \notin DOMAIN url_store
           THEN /\ Reply(t, Error("redirect_short_url", 404, MSG_NOT_FOUND))
                /\ UNCHANGED <<url_store, url, statsInc, store_lock>>
           ELSE /\ url_store' = [url_store EXCEPT ![c].clicks = @ + 1]
                /\ url' = [url EXCEPT ![t] = url_store[c].url]
                /\ statsInc' = [statsInc EXCEPT ![c] = -1]
                /\ pc' = [pc EXCEPT ![t] = "return"]
                /\ store_lock' = 0
                /\ UNCHANGED resp
  /\ UNCHANGED <<req, attempt, code, menu, known, issued, completed, statsRet>>

\* main.py:112-119 (and the 404 returned from inside the with block)
redirect_lookup(t) ==
  /\ pc[t] = "locked"
  /\ store_lock = t
  /\ endpoint(t) = "redirect_short_url"
  /\ LET c == short_code(t)
     IN  IF c \notin DOMAIN url_store
           THEN /\ Reply(t, Error("redirect_short_url", 404, MSG_NOT_FOUND))
                /\ UNCHANGED <<url_store, url, statsInc>>
           ELSE /\ url_store' = [url_store EXCEPT ![c].clicks = @ + 1]
                /\ url' = [url EXCEPT ![t] = url_store[c].url]
                /\ statsInc' = [statsInc EXCEPT ![c] = -1]
                /\ pc' = [pc EXCEPT ![t] = "return"]
                /\ UNCHANGED resp
  /\ store_lock' = 0
  /\ UNCHANGED <<req, attempt, code, menu, known, issued, completed, statsRet>>

\* main.py:122: redirect(url, code=302), after the lock is released
redirect_return(t) ==
  /\ pc[t] = "return"
  /\ endpoint(t) = "redirect_short_url"
  /\ Reply(t, [NoResp EXCEPT !.status = 302, !.endpoint = "redirect_short_url",
                             !.location = url[t]])
  /\ completed' = [completed EXCEPT ![short_code(t)] = @ + 1]
  /\ statsRet' = [statsRet EXCEPT ![short_code(t)] = -1]
  /\ UNCHANGED <<url_store, store_lock, req, locals, menu, known, issued, statsInc>>

\* stats counting its own visits: the lookup bumps clicks
stats_counting(t) ==
  /\ pc[t] = "locked"
  /\ store_lock = t
  /\ endpoint(t) = "stats"
  /\ LET c == short_code(t)
     IN  IF c \notin DOMAIN url_store
           THEN /\ Reply(t, Error("stats", 404, MSG_NOT_FOUND))
                /\ UNCHANGED <<url_store, statsRet, statsInc>>
           ELSE /\ Reply(t, [Ok("stats") EXCEPT !.url = url_store[c].url,
                                                !.clicks = url_store[c].clicks,
                                                !.created_at = url_store[c].created_at])
                /\ url_store' = [url_store EXCEPT ![c].clicks = @ + 1]
                /\ statsRet' = [statsRet EXCEPT ![c] = url_store[c].clicks]
                /\ statsInc' = [statsInc EXCEPT ![c] = url_store[c].clicks]
  /\ store_lock' = 0
  /\ UNCHANGED <<req, locals, menu, known, issued, completed>>

\* main.py:135-144
stats(t) ==
  /\ pc[t] = "locked"
  /\ store_lock = t
  /\ endpoint(t) = "stats"
  /\ LET c == short_code(t)
     IN  IF c \notin DOMAIN url_store
           THEN /\ Reply(t, Error("stats", 404, MSG_NOT_FOUND))
                /\ UNCHANGED <<statsRet, statsInc>>
           ELSE /\ Reply(t, [Ok("stats") EXCEPT !.url = url_store[c].url,
                                                !.clicks = url_store[c].clicks,
                                                !.created_at = url_store[c].created_at])
                /\ statsRet' = [statsRet EXCEPT ![c] = url_store[c].clicks]
                /\ statsInc' = [statsInc EXCEPT ![c] = url_store[c].clicks]
  /\ store_lock' = 0
  /\ UNCHANGED <<url_store, req, locals, menu, known, issued, completed>>

\* main.py:47-48: jsonify(url_store) under the lock
debug_mappings(t) ==
  /\ pc[t] = "locked"
  /\ store_lock = t
  /\ endpoint(t) = "debug_mappings"
  /\ Reply(t, Ok("debug_mappings"))
  /\ store_lock' = 0
  /\ UNCHANGED <<url_store, req, locals, menu, known, history>>

\* the response has gone out; the worker thread takes the next request
finish(t) ==
  /\ pc[t] = "done"
  /\ pc'      = [pc EXCEPT ![t] = "idle"]
  /\ req'     = [req EXCEPT ![t] = NoReq]
  /\ resp'    = [resp EXCEPT ![t] = NoResp]
  /\ attempt' = [attempt EXCEPT ![t] = 0]
  /\ code'    = [code EXCEPT ![t] = NoCode]
  /\ url'     = [url EXCEPT ![t] = NoUrl]
  /\ known'   = [known EXCEPT ![t] = << >>]
  /\ UNCHANGED <<url_store, store_lock, menu, history>>

\* ---------------------------------------------------------- specifications
Next ==
  \E t \in Threads :
    \/ health_check(t)
    \/ api_health(t)
    \/ route_error(t)
    \/ shorten_url(t)
    \/ shorten_generate(t)
    \/ acquire(t)
    \/ shorten_insert(t)
    \/ shorten_exhausted(t)
    \/ shorten_return(t)
    \/ receive(t)
    \/ redirect_lookup(t)
    \/ redirect_return(t)
    \/ stats(t)
    \/ debug_mappings(t)
    \/ finish(t)

Spec == Init /\ [][Next]_vars

\* clients that only post to /api/shorten
NextShorten ==
  \E t \in Threads :
    \/ shorten_url(t)
    \/ shorten_generate(t)
    \/ acquire(t)
    \/ shorten_insert(t)
    \/ shorten_exhausted(t)
    \/ shorten_return(t)
    \/ finish(t)

SpecShorten == InitShorten /\ [][NextShorten]_vars

SpecInput == InitInput /\ [][NextShorten]_vars

\* the handlers that take the lock, under fair scheduling: thread 1 serves
\* shorten and redirect requests, the other threads redirect, stats and
\* debug requests
LiveMenu(t) ==
  IF t = 1
    THEN { Shorten(JSON_TYPE, JObject(<<"url">>, U_google)) }
         \cup { Get(<<SEG_api, c>>) : c \in LookupCodes }
    ELSE { Get(<<SEG_api, c>>) : c \in GenCodes }
         \cup { Get(<<SEG_api, SEG_stats, c>>) : c \in GenCodes }
         \cup { Get(<<SEG_api, SEG_debug, SEG_mappings>>) }

InitLive == InitWith([t \in Threads |-> LiveMenu(t)])

NextLive ==
  \E t \in Threads :
    \/ shorten_url(t)
    \/ shorten_generate(t)
    \/ acquire(t)
    \/ shorten_insert(t)
    \/ shorten_exhausted(t)
    \/ shorten_return(t)
    \/ receive(t)
    \/ redirect_lookup(t)
    \/ redirect_return(t)
    \/ stats(t)
    \/ debug_mappings(t)
    \/ finish(t)

\* a step of thread t that waits for nothing: the thread is runnable
Proceed(t) ==
  \/ shorten_generate(t)
  \/ shorten_insert(t)
  \/ shorten_exhausted(t)
  \/ shorten_return(t)
  \/ redirect_lookup(t)
  \/ redirect_return(t)
  \/ stats(t)
  \/ debug_mappings(t)

\* Fair scheduling of the worker threads: a runnable thread is eventually
\* run, and a thread blocked in store_lock.acquire() gets the lock when the
\* lock is free again and again.  Nothing obliges a client to send a request.
Fairness ==
  \A t \in Threads : WF_vars(Proceed(t)) /\ SF_vars(acquire(t))

SpecLive == InitLive /\ [][NextLive]_vars /\ Fairness

\* ------------------------------------------------------------------ claims
IsShorten(t)  == endpoint(t) = "shorten_url"
IsRedirect(t) == endpoint(t) = "redirect_short_url"
IsStats(t)    == endpoint(t) = "stats"

\* shorten requests that have inserted code c and not yet answered
Inserted(c) ==
  Cardinality({ t \in Threads : pc[t] = "return" /\ IsShorten(t) /\ code[t] = c })

\* C1: under any interleaving of shorten requests no two successful shorten
\* responses carry the same short_code: for one code at most one
\* check-and-insert succeeds, so at most one response carries it.
C1_UniqueCodes ==
  \A c \in GenCodes : Len(issued[c]) + Inserted(c) <= 1

\* C1 witness: one thread has inserted a code while another thread, having
\* drawn the same code, is waiting for the lock to try its own insert.
C1_Witness ==
  \E t1, t2 \in Threads :
    /\ t1 # t2
    /\ pc[t1] = "return" /\ IsShorten(t1)
    /\ pc[t2] = "lock" /\ IsShorten(t2)
    /\ code[t1] = code[t2]

\* C2: for every code c returned by a successful shorten of URL u, every
\* later GET /api/<c> is handled by the redirect handler and answers 302
\* with Location exactly u.
C2_IssuedCodeRedirects ==
  \A t \in Threads :
    ( /\ pc[t] = "done"
      /\ req[t].method = "GET"
      /\ Len(req[t].path) = 2
      /\ req[t].path[1] = SEG_api
      /\ req[t].path[2] \in GenCodes
      /\ known[t] # << >> )
    => /\ resp[t].endpoint = "redirect_short_url"
       /\ resp[t].status = 302
       /\ \A i \in 1..Len(known[t]) : resp[t].location = known[t][i]

\* redirects of code c that have incremented its clicks and not yet answered
InFlight(c) ==
  Cardinality({ t \in Threads : pc[t] = "return" /\ IsRedirect(t) /\ short_code(t) = c })

\* the step in which stats answers 200
StatsAnswers(t) ==
  pc[t] = "locked" /\ IsStats(t) /\ pc'[t] = "done" /\ resp'[t].status = 200

\* C3 as stated: the clicks value reported by stats equals the number of
\* redirect requests for the code that have completed with 302.
C3_ClicksEqualCompleted ==
  [][\A t \in Threads :
       StatsAnswers(t) => resp'[t].clicks = completed[short_code(t)]]_vars

\* C3 amended: the clicks value reported by stats equals the number of
\* redirect requests for the code that have incremented it under the lock:
\* those answered 302 plus those that have left the lock and not yet
\* answered; each redirect is counted exactly once.
C3_ClicksCountRedirects ==
  [][\A t \in Threads :
       StatsAnswers(t) =>
         resp'[t].clicks = completed[short_code(t)] + InFlight(short_code(t))]_vars

\* C3 witness: stats has reported two clicks for a code two redirects of
\* which have been answered 302.
C3_Witness ==
  \E t \in Threads :
    /\ pc[t] = "done" /\ IsStats(t)
    /\ resp[t].clicks = 2
    /\ completed[short_code(t)] = 2

\* C4: for every code c returned by a successful shorten of URL u, a GET on
\* the path of the returned short_url (/<c>, without /api) answers 302 with
\* Location u.
C4_ShortUrlRedirects ==
  \A t \in Threads :
    ( /\ pc[t] = "done"
      /\ req[t].method = "GET"
      /\ \E c \in GenCodes : req[t].path = short_url_path(c)
      /\ known[t] # << >> )
    => /\ resp[t].status = 302
       /\ \A i \in 1..Len(known[t]) : resp[t].location = known[t][i]

\* a JSON body that is not a non-empty object containing the key "url"
BadBody(data) ==
  ~(data.kind = "dict" /\ data.items # << >> /\ Contains(data) = "True")

\* the step in which a POST /api/shorten arrives and is checked
ShortenArrives(t) ==
  pc[t] = "idle" /\ pc'[t] # "idle" /\ Route(req'[t]).endpoint = "shorten_url"

\* C5: a shorten request whose JSON body is not a non-empty object with the
\* key "url" (an array, a string or a number included) answers 400 with an
\* error field, raises nothing and leaves the store unchanged.
C5_BadBodyAnswers400 ==
  [][\A t \in Threads :
       (ShortenArrives(t) /\ is_json(req'[t]) /\ BadBody(req'[t].data)) =>
         /\ pc'[t] = "done"
         /\ resp'[t].status = 400
         /\ resp'[t].error # ""
         /\ resp'[t].raised = ""
         /\ url_store' = url_store]_vars

\* C6: shorten checks in a fixed order and rejects before any mutation: a
\* non-JSON content type answers 415 whatever the body; otherwise an object
\* whose "url" fails the validator ("not_a_url" among them) answers 400
\* "Invalid URL"; a rejected request leaves the store as it was and has
\* generated no code.
C6_RejectsInOrder ==
  [][\A t \in Threads :
       ShortenArrives(t) =>
         LET r == req'[t]
         IN  /\ ~is_json(r) =>
                  pc'[t] = "done" /\ resp'[t].status = 415 /\ resp'[t].error # ""
             /\ ( /\ is_json(r)
                  /\ r.data.kind = "dict"
                  /\ Contains(r.data) = "True"
                  /\ (r.data.url = U_not_url \/ ~is_valid_url(r.data.url)) )
                => /\ pc'[t] = "done"
                   /\ resp'[t].status = 400
                   /\ resp'[t].error = MSG_INVALID_URL
             /\ pc'[t] = "done" =>
                  /\ url_store' = url_store
                  /\ attempt'[t] = 0
                  /\ code'[t] = NoCode]_vars

\* C6 witness: a request has been answered 400 "Invalid URL" while the store
\* holds a record.
C6_Witness ==
  \E t \in Threads :
    /\ pc[t] = "done"
    /\ resp[t].status = 400
    /\ resp[t].error = MSG_INVALID_URL
    /\ DOMAIN url_store # {}

\* the step in which redirect or stats, holding the lock, misses its code
MissAnswers(t) ==
  /\ pc[t] = "locked"
  /\ IsRedirect(t) \/ IsStats(t)
  /\ short_code(t) \notin DOMAIN url_store
  /\ pc'[t] # "locked"

\* C7: redirect and stats on a code that is not a key of the store answer 404
\* with an error field and leave the store unchanged.
C7_UnknownCode404 ==
  [][\A t \in Threads :
       MissAnswers(t) =>
         /\ pc'[t] = "done"
         /\ resp'[t].status = 404
         /\ resp'[t].error # ""
         /\ url_store' = url_store]_vars

\* C7 witness: a redirect has been answered 404 while the store holds a
\* record that has been clicked.
C7_Witness ==
  \E t \in Threads :
    /\ pc[t] = "done" /\ IsRedirect(t)
    /\ resp[t].status = 404
    /\ \E c \in DOMAIN url_store : url_store[c].clicks > 0

\* C8: once a code is a key of the store it stays a key and its url and
\* created_at never change, whatever step is taken.
C8_RecordsKept ==
  [][\A c \in DOMAIN url_store :
       /\ c \in DOMAIN url_store'
       /\ url_store'[c].url = url_store[c].url
       /\ url_store'[c].created_at = url_store[c].created_at]_vars

\* C8 witness: a shorten of another URL has drawn a code that is already a
\* key, with clicks on it, and has gone round its loop.
C8_Witness ==
  \E t \in Threads :
    /\ pc[t] = "generate" /\ IsShorten(t)
    /\ attempt[t] >= 1
    /\ code[t] \in DOMAIN url_store
    /\ url_store[code[t]].url # long_url(t)
    /\ url_store[code[t]].clicks > 0

\* C9: a shorten request makes at most 10 generate-and-insert attempts; when
\* the tenth has collided too it answers 500 "Could not generate unique
\* code"; 500 is answered only then; and a request that inserts a record
\* answers 200, so the one answered 500 has left the store unchanged.
C9_TenAttempts ==
  /\ [](\A t \in Threads :
          /\ attempt[t] <= 10
          /\ (pc[t] = "done" /\ IsShorten(t) /\ resp[t].status = 500) =>
                attempt[t] = 10 /\ resp[t].error = MSG_NO_CODE)
  /\ [][\A t \in Threads :
          /\ (pc[t] = "generate" /\ attempt[t] = 10 /\ pc'[t] # "generate") =>
                /\ pc'[t] = "done"
                /\ resp'[t].status = 500
                /\ resp'[t].error = MSG_NO_CODE
                /\ url_store' = url_store
          /\ (IsShorten(t) /\ pc'[t] # pc[t] /\ url_store' # url_store) =>
                pc'[t] = "return"
          /\ (IsShorten(t) /\ pc[t] = "return" /\ pc'[t] # "return") =>
                pc'[t] = "done" /\ resp'[t].status = 200]_vars

\* C9 witness: a shorten request has been answered 500 after ten collisions.
C9_Witness ==
  \E t \in Threads :
    /\ pc[t] = "done" /\ IsShorten(t)
    /\ resp[t].status = 500
    /\ resp[t].error = MSG_NO_CODE
    /\ attempt[t] = 10

\* the step in which stats or debug_mappings, holding the lock, answers
ReadAnswers(t) ==
  /\ pc[t] = "locked"
  /\ IsStats(t) \/ endpoint(t) = "debug_mappings"
  /\ pc'[t] # "locked"

\* C10 as stated: stats and debug_mappings never change the store, and a
\* stats call returns the clicks of the previous stats call for the code when
\* no redirect of the code has completed (been answered) in between.
C10_SameClicksUnlessCompleted ==
  [][\A t \in Threads :
       /\ ReadAnswers(t) => url_store' = url_store
       /\ (StatsAnswers(t) /\ statsRet[short_code(t)] # -1) =>
             resp'[t].clicks = statsRet[short_code(t)]]_vars

\* C10 amended: stats and debug_mappings never change the store, and a stats
\* call returns the clicks of the previous stats call for the code when no
\* redirect of the code has incremented its clicks in between (a redirect
\* that has incremented and not yet answered counts as one in between).
C10_SameClicksUnlessIncremented ==
  [][\A t \in Threads :
       /\ ReadAnswers(t) => url_store' = url_store
       /\ (StatsAnswers(t) /\ statsInc[short_code(t)] # -1) =>
             resp'[t].clicks = statsInc[short_code(t)]]_vars

\* C10 witness: two stats calls for one clicked code have been answered with
\* the same clicks while another code has been clicked too.
C10_Witness ==
  \E t1, t2 \in Threads :
    /\ t1 # t2
    /\ pc[t1] = "done" /\ IsStats(t1) /\ resp[t1].status = 200
    /\ pc[t2] = "done" /\ IsStats(t2) /\ resp[t2].status = 200
    /\ short_code(t1) = short_code(t2)
    /\ resp[t1].clicks = resp[t2].clicks
    /\ resp[t1].clicks >= 1
    /\ statsInc[short_code(t1)] = resp[t1].clicks

\* the characters of ALPHANUM
AlphanumChars == { ALPHANUM[i] : i \in 1..Len(ALPHANUM) }

\* a string of exactly 6 characters, each of them alphanumeric
IsCode(c) == Len(c) = 6 /\ \A i \in 1..Len(c) : c[i] \in AlphanumChars

\* the thread has answered a shorten request with 200
ShortenAnswered(t) == pc[t] = "done" /\ IsShorten(t) /\ resp[t].status = 200

\* C11: every short_code returned by shorten, and every key of the store in
\* every reachable state, is a string of exactly 6 characters all drawn from
\* the 62-character alphanumeric alphabet.
C11_CodesAreSixAlphanum ==
  /\ Cardinality(AlphanumChars) = 62
  /\ \A c \in DOMAIN url_store : IsCode(c)
  /\ \A t \in Threads : ShortenAnswered(t) => IsCode(resp[t].short_code)

\* C11 witness: shorten has answered 200 with a code that is a key of the
\* store, next to a second key.
C11_Witness ==
  \E t \in Threads :
    /\ ShortenAnswered(t)
    /\ resp[t].short_code \in DOMAIN url_store
    /\ Cardinality(DOMAIN url_store) = 2

\* the step in which thread t answers with what it has just read in the store:
\* the 404 of redirect_short_url, and every answer of stats and debug_mappings
AnswersFromStore(t) ==
  /\ pc[t] # "done" /\ pc'[t] = "done"
  /\ \/ IsStats(t)
     \/ endpoint(t) = "debug_mappings"
     \/ IsRedirect(t) /\ resp'[t].status = 404

\* C12: every read and every write of the store by a handler happens while
\* that handler holds the single store lock; at most one handler holds the
\* lock at a time (the owner is exactly the one thread inside a with block);
\* no handler holds the lock while it generates a code: shorten takes it
\* around the check-and-insert of one generated code and has released it
\* before the next attempt.
C12_StoreUnderLock ==
  /\ [](/\ store_lock \in Threads \cup {0}
        /\ \A t \in Threads : (pc[t] = "locked") <=> (store_lock = t)
        /\ Cardinality({ t \in Threads : pc[t] = "locked" }) <= 1)
  /\ [][\A t \in Threads :
          \* writes
          /\ (url_store' # url_store /\ pc'[t] # pc[t]) => store_lock = t
          \* reads: the membership test of shorten, the lookups of redirect
          \* and stats, the dump of debug_mappings
          /\ (IsShorten(t) /\ pc[t] = "locked" /\ pc'[t] # "locked") => store_lock = t
          /\ (url'[t] # url[t] /\ url'[t] # NoUrl) => store_lock = t
          /\ AnswersFromStore(t) => store_lock = t
          \* generation
          /\ (code'[t] # code[t] /\ code'[t] # NoCode) =>
                /\ store_lock # t /\ store_lock' # t
                /\ pc[t] = "generate"
          \* a step out of the with block releases the lock
          /\ (pc[t] = "locked" /\ pc'[t] # "locked") => store_lock' = 0]_vars

\* C12 witness: shorten holds the lock for its second attempt while another
\* thread waits for the lock.
C12_Witness ==
  \E t1, t2 \in Threads :
    /\ pc[t1] = "locked" /\ IsShorten(t1) /\ attempt[t1] >= 2
    /\ store_lock = t1
    /\ pc[t2] = "lock"

\* shorten requests that have inserted a record under one of the codes of S:
\* those already answered and those about to answer
RECURSIVE InsertedRequests(_)
InsertedRequests(S) ==
  IF S = {} THEN 0
  ELSE LET c == CHOOSE x \in S : TRUE
       IN  Len(issued[c]) + Inserted(c) + InsertedRequests(S \ {c})

\* the step in which shorten, holding the lock, tries its insert
InsertTried(t) == pc[t] = "locked" /\ IsShorten(t) /\ pc'[t] # "locked"

\* C13: a shorten request with a valid URL succeeds with the first of its
\* generated codes that is absent from the store when its insert is tried
\* (a code that is present is passed over and leaves the store as it was),
\* stops generating after that and answers with that code, and inserts
\* exactly one record {url: submitted URL, clicks: 0}; so the number of
\* records in the store equals the number of shorten requests that inserted.
C13_FirstFreeCodeOneRecord ==
  /\ [](Cardinality(DOMAIN url_store) = InsertedRequests(GenCodes))
  /\ [][\A t \in Threads :
          /\ (InsertTried(t) /\ code[t] \notin DOMAIN url_store) =>
                /\ pc'[t] = "return"
                /\ DOMAIN url_store' = DOMAIN url_store \cup {code[t]}
                /\ url_store'[code[t]].url = long_url(t)
                /\ url_store'[code[t]].clicks = 0
                /\ \A c \in DOMAIN url_store : url_store'[c] = url_store[c]
          /\ (InsertTried(t) /\ code[t] \in DOMAIN url_store) =>
                /\ pc'[t] = "generate"
                /\ url_store' = url_store
          /\ (pc[t] = "return" /\ IsShorten(t) /\ pc'[t] # "return") =>
                /\ pc'[t] = "done"
                /\ resp'[t].status = 200
                /\ resp'[t].short_code = code[t]
                /\ code'[t] = code[t] /\ attempt'[t] = attempt[t]
                /\ url_store' = url_store]_vars

\* C13 witness: a shorten request has inserted its record on a later attempt,
\* after a collision, and the store holds two records.
C13_Witness ==
  \E t \in Threads :
    /\ pc[t] = "return" /\ IsShorten(t)
    /\ attempt[t] >= 2
    /\ url_store[code[t]].url = long_url(t)
    /\ Cardinality(DOMAIN url_store) = 2

\* the step in which redirect_short_url, holding the lock, finds its code
RedirectHits(t) ==
  /\ pc[t] = "locked" /\ IsRedirect(t)
  /\ short_code(t) \in DOMAIN url_store
  /\ pc'[t] # "locked"

\* C14: a successful redirect of code c changes exactly one thing in the
\* store: clicks of c goes up by exactly 1; the url and created_at of c,
\* every field of every other record and the set of keys are unchanged.  The
\* clicks of every record is non-negative, never decreases, and changes in
\* no other step.
C14_RedirectOnlyCounts ==
  /\ [](\A c \in DOMAIN url_store : url_store[c].clicks \in Nat)
  /\ [][/\ \A t \in Threads :
             RedirectHits(t) =>
               LET c == short_code(t)
               IN  /\ DOMAIN url_store' = DOMAIN url_store
                   /\ url_store'[c].clicks = url_store[c].clicks + 1
                   /\ url_store'[c].url = url_store[c].url
                   /\ url_store'[c].created_at = url_store[c].created_at
                   /\ \A k \in DOMAIN url_store \ {c} : url_store'[k] = url_store[k]
        /\ \A c \in DOMAIN url_store :
             /\ c \in DOMAIN url_store'
             /\ url_store'[c].clicks >= url_store[c].clicks
             /\ url_store'[c].clicks # url_store[c].clicks =>
                  \E t \in Threads : RedirectHits(t) /\ short_code(t) = c
        /\ (\A t \in Threads : pc[t] = "return" /\ IsRedirect(t) /\ pc'[t] = "done"
              => resp'[t].status = 302 /\ url_store' = url_store)]_vars

\* C14 witness: a redirect has taken the clicks of its code to 2 while the
\* store holds another record, and is about to answer 302.
C14_Witness ==
  \E t \in Threads :
    /\ pc[t] = "return" /\ IsRedirect(t)
    /\ url_store[short_code(t)].clicks = 2
    /\ \E k \in DOMAIN url_store : k # short_code(t)

\* C15: no code that generate_short_code can return equals the fixed segment
\* of another GET route under /api (the 6-letter segment "health" of
\* /api/health in particular): for every code c a shorten request has
\* generated, GET /api/<c> is dispatched to redirect_short_url.
C15_GeneratedCodeReachesRedirect ==
  \A t \in Threads :
    (IsShorten(t) /\ code[t] # NoCode) =>
      /\ code[t] # SEG_health
      /\ Route(Get(<<SEG_api, code[t]>>)).endpoint = "redirect_short_url"

\* a str with scheme http or https and a non-empty network location
HttpWithNetloc(u) ==
  /\ u.type = "str"
  /\ ~urlparse(u.toks).raises
  /\ urlparse(u.toks).scheme \in {"http", "https"}
  /\ urlparse(u.toks).netloc # << >>

\* C17: in every reachable state the url of every record in the store is a
\* value the validator accepted (scheme http or https and a non-empty
\* network location), and the request that inserts a record has passed the
\* validator with that very value.
C17_StoredUrlsValidated ==
  /\ [](\A c \in DOMAIN url_store :
          /\ is_valid_url(url_store[c].url)
          /\ HttpWithNetloc(url_store[c].url))
  /\ [][\A t \in Threads :
          (url_store' # url_store /\ pc'[t] # pc[t]) =>
            /\ IsShorten(t)
            /\ is_valid_url(long_url(t))
            /\ url_store'[code[t]].url = long_url(t)]_vars

\* C17 witness: the store holds the record of a URL accepted with an
\* upper-case scheme next to another record, after posts of every kind.
C17_Witness ==
  /\ \E c \in DOMAIN url_store : url_store[c].url = U_upper
  /\ \E c \in DOMAIN url_store : url_store[c].url = U_google

\* thread t is serving a request it has not answered yet
Serving(t) == pc[t] \in {"generate", "lock", "locked", "return"}

====
